---- MODULE Spec2Model ----
(***************************************************************************)
(* Event-sourced CQRS core of susin-d/victus: the ProduceAggregate, its     *)
(* domain events and the in-memory event store, driven by concurrent        *)
(* callers that register / load an aggregate, operate on it and save the    *)
(* events it emitted; and the command bus, its two command handlers and     *)
(* the in-memory read model store they write.                               *)
(***************************************************************************)
EXTENDS Integers, Sequences, FiniteSets, TLC

(* ------------------------------ bounds --------------------------------- *)
\* number of event ids handed out (uuidv4 / generateEventId): the events emitted in a run
MaxEvents == 3

(* ------------------------------ inputs --------------------------------- *)
Callers == {"h1", "h2"}
\* the updaterId of a call: the owning farmer or somebody else
Parties == {"farmer-1", "inspector-9"}
\* what register is given: the farmer, origin and quality of one produce,
\* and any price
Farmers == {"farmer-1"}
Origins == {"CA"}
InitialQualities == {"Grade A"}
\* what updateQuality and updatePrice are given (0: a price that is not positive)
Qualities == {"Grade A", "Organic"}
Prices == {0, 150, 200}
\* the aggregate ids uuidv4() returns in register, in the order it returns them
NewIds == <<"p1", "p2">>
AggIds == {NewIds[i] : i \in 1..Len(NewIds)}
\* the readings of the wall clock (new Date())
Times == {0, 1}
\* the callers of CommandBus.send
SenderSeq == <<"s1", "s2">>
Senders == {SenderSeq[i] : i \in 1..Len(SenderSeq)}
\* command kinds: the constructor names send and registerHandler key on
Kinds == {"RegisterProduceCommand", "UpdateProduceQualityCommand"}
\* handler instances, named by their class
RegisterHandlers == {"RegisterProduceHandler-a", "RegisterProduceHandler-b"}
UpdateHandlers == {"UpdateProduceQualityHandler-a"}
Handlers == RegisterHandlers \cup UpdateHandlers
\* the handlers written for a command kind
HandlersOf(kind) ==
    IF kind = "RegisterProduceCommand" THEN RegisterHandlers ELSE UpdateHandlers
\* the collections and keys of the read model, and the objects it can hold
CollectionSeq == <<"produces", "farmers">>
Collections == {CollectionSeq[i] : i \in 1..Len(CollectionSeq)}
DocIds == AggIds
RefSeq == <<"o1", "o2", "o3", "o4", "o5">>
Refs == {RefSeq[i] : i \in 1..Len(RefSeq)}
\* the :id of a request path: a string of at most MaxIdLen characters, among
\* them a digit, a letter, a blank, a sign and a point
MaxIdLen == 2
Chars == {"1", "a", " ", "-", "."}
PathIds == UNION {[1..n -> Chars] : n \in 1..MaxIdLen}
\* the JSON bodies of a register request: each field may be missing or empty
BodyStrings == {"", "Farm A"}
BodyPrices == {-10, 0, 80}
\* the fields POST /api/register-produce and CQRSController.registerProduce require
RouteFields == {"origin", "quality", "initialPrice", "privateKey"}
ControllerFields == {"farmerId", "origin", "quality", "initialPrice"}
Bodies ==
    UNION {[present -> BodyStrings] :
              present \in SUBSET ((RouteFields \cup ControllerFields) \ {"initialPrice"})}
PricedBodies ==
    Bodies \cup {[f \in (DOMAIN body) \cup {"initialPrice"} |->
                    IF f = "initialPrice" THEN price ELSE body[f]] :
                        body \in Bodies, price \in BodyPrices}
\* documents handed to save: with no id, with an id that is not the key,
\* and with fewer fields than the others
StoreDocs ==
    {[farmerId |-> "farmer-1", quality |-> "Grade A", status |-> "REGISTERED"],
     [id |-> "other", farmerId |-> "farmer-1", quality |-> "Organic"],
     [id |-> "p1", farmerId |-> "farmer-2"]}
\* queries handed to find; <<>> is the query with no field, {}
Queries ==
    {<<>>, [farmerId |-> "farmer-1"], [farmerId |-> "farmer-1", quality |-> "Organic"],
     [status |-> "REGISTERED"], [id |-> "p1"]}
\* the produces ProduceRegistry can hold and the transfers TransferContract
\* can log
MaxProduce == 2
MaxTransfers == 2
\* the accounts that send transactions, and address(0)
Accounts == {"0xA", "0xB", "0xC"}
ZeroAddress == "0x0"
\* the produce ids a transaction can name: 0 is never registered
ProduceIds == 0..MaxProduce
\* the price a RegisterProduceCommand carries, the quality an update command carries
CommandPrices == {150}
CommandQualities == {"Organic"}

VARIABLES
    store,        \* InMemoryEventStore.events : aggregate id -> sequence of events
    local,        \* the ProduceAggregate instance each caller holds (or NoAgg)
    committed,    \* per caller: how many events of its aggregate it knows to be in the store
    nextId,       \* position in NewIds of the next aggregate id uuidv4() returns
    nextEventId,  \* next event id
    clock,        \* wall clock read by new Date()
    last,         \* the call made by the last step, its arguments and its outcome
    lastSave,     \* per caller: its last saveEvents call
    handlers,     \* CommandBus.handlers : command kind -> handler (or NoHandler)
    registered,   \* per command kind: the handler the latest registerHandler call passed
    data,         \* InMemoryReadModelStore.data : collection -> id -> object (or NoRef)
    keys,         \* the keys of each collection's Map, in insertion order
    heap,         \* the documents: object -> its fields (NoDoc: no such object)
    sends,        \* per sender: its send call and the handler run it started
    readModel,    \* ProduceProjection.readModel : aggregate id -> entry (or NoDoc)
    http,         \* the HTTP request last received: its input, its answer so far
                  \* and the outside calls made for it
    produces,     \* ProduceRegistry.produces : id -> Produce
    produceCount, \* ProduceRegistry.produceCount
    transfers,    \* TransferContract.transfers : id -> Transfer
    transferCount \* TransferContract.transferCount

aggVars == <<store, local, committed, nextId, nextEventId, clock, last, lastSave>>
chainVars == <<produces, produceCount, transfers, transferCount>>
busVars == <<handlers, registered, data, keys, heap, sends, readModel, http,
             produces, produceCount, transfers, transferCount>>
vars == <<store, local, committed, nextId, nextEventId, clock, last, lastSave,
          handlers, registered, data, keys, heap, sends, readModel, http,
          produces, produceCount, transfers, transferCount>>

NoAgg == [id |-> "none"]
NoSave == [id |-> "none"]

\* the Error messages thrown by the code, named by the kind they stand for
Unauthorized == "Only the farmer can update produce quality"
InvalidState == "Cannot update quality of inactive produce"
InvalidPrice == "Price must be positive"
EmptyHistory == "Cannot rebuild aggregate from empty events"
ConcurrencyConflict == "ConcurrencyConflict"
NoError == "none"
NoHandlerRegistered == "No handler registered for command"
NotFound == "Produce not found"

NoHandler == "no handler"
NoRef == "null"
NoDoc == [id |-> "none"]
NoCommand == [kind |-> "none"]

(* --------------------------- domain events ----------------------------- *)
BaseDomainEvent(eventId, eventType, aggregateId, eventData, version, now) ==
    [eventId |-> eventId, eventType |-> eventType, aggregateId |-> aggregateId,
     eventData |-> eventData, timestamp |-> now, version |-> version]

ProduceRegisteredEvent(eventId, aggregateId, farmerId, origin, quality, initialPrice, now) ==
    BaseDomainEvent(eventId, "ProduceRegistered", aggregateId,
                    [farmerId |-> farmerId, origin |-> origin, quality |-> quality,
                     initialPrice |-> initialPrice], 1, now)

ProduceQualityUpdatedEvent(eventId, aggregateId, oldQuality, newQuality, updaterId, now) ==
    BaseDomainEvent(eventId, "ProduceQualityUpdated", aggregateId,
                    [oldQuality |-> oldQuality, newQuality |-> newQuality,
                     updaterId |-> updaterId], 0, now)

(* ----------------------------- aggregate ------------------------------- *)
\* constructor: _version = 0, events = [], status defaults to 'REGISTERED',
\* createdAt / updatedAt default to new Date()
ProduceAggregate(id, farmerId, origin, quality, initialPrice, currentPrice, now) ==
    [id |-> id, farmerId |-> farmerId, origin |-> origin, quality |-> quality,
     initialPrice |-> initialPrice, currentPrice |-> currentPrice,
     status |-> "REGISTERED", createdAt |-> now, updatedAt |-> now,
     version |-> 0, events |-> <<>>]

addEvent(a, event) ==
    [a EXCEPT !.events = Append(@, event), !.version = @ + 1]

\* register that forgets to emit the registration event
register_NoEvent(id, farmerId, origin, quality, initialPrice, now, eventId) ==
    [agg |-> ProduceAggregate(id, farmerId, origin, quality, initialPrice, initialPrice, now),
     err |-> NoError]

register(id, farmerId, origin, quality, initialPrice, now, eventId) ==
    LET produce == ProduceAggregate(id, farmerId, origin, quality,
                                    initialPrice, initialPrice, now)
    IN  [agg |-> addEvent(produce,
                          ProduceRegisteredEvent(eventId, id, farmerId, origin,
                                                 quality, initialPrice, now)),
         err |-> NoError]

\* updateQuality without the ownership check
updateQuality_NoOwnerCheck(a, newQuality, updaterId, now, eventId) ==
    IF a.status # "REGISTERED" /\ a.status # "ACTIVE"
    THEN [agg |-> a, err |-> InvalidState]
    ELSE LET oldQuality == a.quality
             a1 == [a EXCEPT !.quality = newQuality, !.updatedAt = now]
         IN  [agg |-> addEvent(a1, ProduceQualityUpdatedEvent(eventId, a.id, oldQuality,
                                                              newQuality, updaterId, now)),
              err |-> NoError]

\* updateQuality without the status check
updateQuality_NoStatusCheck(a, newQuality, updaterId, now, eventId) ==
    IF a.farmerId # updaterId
    THEN [agg |-> a, err |-> Unauthorized]
    ELSE LET oldQuality == a.quality
             a1 == [a EXCEPT !.quality = newQuality, !.updatedAt = now]
         IN  [agg |-> addEvent(a1, ProduceQualityUpdatedEvent(eventId, a.id, oldQuality,
                                                              newQuality, updaterId, now)),
              err |-> NoError]

updateQuality(a, newQuality, updaterId, now, eventId) ==
    IF a.farmerId # updaterId
    THEN [agg |-> a, err |-> Unauthorized]
    ELSE IF a.status # "REGISTERED" /\ a.status # "ACTIVE"
    THEN [agg |-> a, err |-> InvalidState]
    ELSE LET oldQuality == a.quality
             a1 == [a EXCEPT !.quality = newQuality, !.updatedAt = now]
         IN  [agg |-> addEvent(a1, ProduceQualityUpdatedEvent(eventId, a.id, oldQuality,
                                                              newQuality, updaterId, now)),
              err |-> NoError]

\* updatePrice that rejects only negative prices
updatePrice_AllowsZero(a, newPrice, updaterId, now, eventId) ==
    IF newPrice < 0
    THEN [agg |-> a, err |-> InvalidPrice]
    ELSE LET a1 == [a EXCEPT !.currentPrice = newPrice, !.updatedAt = now]
         IN  [agg |-> addEvent(a1,
                  [eventId |-> eventId, eventType |-> "ProducePriceUpdated",
                   aggregateId |-> a1.id,
                   eventData |-> [oldPrice |-> a1.currentPrice, newPrice |-> newPrice,
                                  updaterId |-> updaterId],
                   timestamp |-> now, version |-> a1.version + 1]),
              err |-> NoError]

updatePrice(a, newPrice, updaterId, now, eventId) ==
    IF newPrice <= 0
    THEN [agg |-> a, err |-> InvalidPrice]
    ELSE LET a1 == [a EXCEPT !.currentPrice = newPrice, !.updatedAt = now]
         IN  [agg |-> addEvent(a1,
                  [eventId |-> eventId, eventType |-> "ProducePriceUpdated",
                   aggregateId |-> a1.id,
                   eventData |-> [oldPrice |-> a1.currentPrice, newPrice |-> newPrice,
                                  updaterId |-> updaterId],
                   timestamp |-> now, version |-> a1.version + 1]),
              err |-> NoError]

deactivate(a, now, eventId) ==
    LET a1 == [a EXCEPT !.status = "INACTIVE", !.updatedAt = now]
    IN  [agg |-> addEvent(a1,
             [eventId |-> eventId, eventType |-> "ProduceDeactivated",
              aggregateId |-> a1.id, eventData |-> [none |-> 0],
              timestamp |-> now, version |-> a1.version + 1]),
         err |-> NoError]

getUncommittedEvents(a) == a.events

\* markEventsAsCommitted that also forgets the version
markEventsAsCommitted_ResetsVersion(a) == [a EXCEPT !.events = <<>>, !.version = 0]

markEventsAsCommitted(a) == [a EXCEPT !.events = <<>>]

\* applyEvent in which a replayed price update makes the produce ACTIVE
applyEvent_PriceActivates(a, event) ==
    LET a1 == CASE event.eventType = "ProduceQualityUpdated" ->
                       [a EXCEPT !.quality = event.eventData.newQuality]
                [] event.eventType = "ProducePriceUpdated" ->
                       [a EXCEPT !.currentPrice = event.eventData.newPrice,
                                 !.status = "ACTIVE"]
                [] event.eventType = "ProduceDeactivated" ->
                       [a EXCEPT !.status = "INACTIVE"]
                [] OTHER -> a
    IN  [a1 EXCEPT !.updatedAt = event.timestamp, !.version = event.version]

\* applyEvent that returns at once on an event type it has no case for
applyEvent_SkipsUnknown(a, event) ==
    IF event.eventType \notin {"ProduceQualityUpdated", "ProducePriceUpdated",
                               "ProduceDeactivated"}
    THEN a
    ELSE LET a1 == CASE event.eventType = "ProduceQualityUpdated" ->
                            [a EXCEPT !.quality = event.eventData.newQuality]
                     [] event.eventType = "ProducePriceUpdated" ->
                            [a EXCEPT !.currentPrice = event.eventData.newPrice]
                     [] event.eventType = "ProduceDeactivated" ->
                            [a EXCEPT !.status = "INACTIVE"]
         IN  [a1 EXCEPT !.updatedAt = event.timestamp, !.version = event.version]

\* applyEvent in which a replayed quality update puts the price back
applyEvent_QualityResetsPrice(a, event) ==
    LET a1 == CASE event.eventType = "ProduceQualityUpdated" ->
                       [a EXCEPT !.quality = event.eventData.newQuality,
                                 !.currentPrice = a.initialPrice]
                [] event.eventType = "ProducePriceUpdated" ->
                       [a EXCEPT !.currentPrice = event.eventData.newPrice]
                [] event.eventType = "ProduceDeactivated" ->
                       [a EXCEPT !.status = "INACTIVE"]
                [] OTHER -> a
    IN  [a1 EXCEPT !.updatedAt = event.timestamp, !.version = event.version]

applyEvent(a, event) ==
    LET a1 == CASE event.eventType = "ProduceQualityUpdated" ->
                       [a EXCEPT !.quality = event.eventData.newQuality]
                [] event.eventType = "ProducePriceUpdated" ->
                       [a EXCEPT !.currentPrice = event.eventData.newPrice]
                [] event.eventType = "ProduceDeactivated" ->
                       [a EXCEPT !.status = "INACTIVE"]
                [] OTHER -> a
    IN  [a1 EXCEPT !.updatedAt = event.timestamp, !.version = event.version]

RECURSIVE applyRemaining(_, _, _)
\* the loop of fromEvents: for (i = 1; i < events.length; i++) applyEvent(events[i])
\* (i is the 1-based position here)
applyRemaining(a, events, i) ==
    IF i > Len(events) THEN a
    ELSE applyRemaining(applyEvent(a, events[i]), events, i + 1)

\* fromEvents that answers an empty history with a blank aggregate
fromEvents_BlankOnEmpty(events, now) ==
    IF Len(events) = 0
    THEN [agg |-> ProduceAggregate("blank", "", "", "", 0, 0, now), err |-> NoError]
    ELSE LET firstEvent == events[1]
             produce == ProduceAggregate(firstEvent.aggregateId,
                                         firstEvent.eventData.farmerId,
                                         firstEvent.eventData.origin,
                                         firstEvent.eventData.quality,
                                         firstEvent.eventData.initialPrice,
                                         firstEvent.eventData.initialPrice, now)
         IN  [agg |-> applyRemaining(produce, events, 2), err |-> NoError]

fromEvents(events, now) ==
    IF Len(events) = 0
    THEN [agg |-> NoAgg, err |-> EmptyHistory]
    ELSE LET firstEvent == events[1]
             produce == ProduceAggregate(firstEvent.aggregateId,
                                         firstEvent.eventData.farmerId,
                                         firstEvent.eventData.origin,
                                         firstEvent.eventData.quality,
                                         firstEvent.eventData.initialPrice,
                                         firstEvent.eventData.initialPrice, now)
         IN  [agg |-> applyRemaining(produce, events, 2), err |-> NoError]

(* ---------------------------- event store ------------------------------ *)
saveEvents_Replace(st, aggregateId, events) ==
    [st EXCEPT ![aggregateId] = events]

saveEvents_FirstOnly(st, aggregateId, events) ==
    [st EXCEPT ![aggregateId] = IF events = <<>> THEN @ ELSE Append(@, events[1])]

\* a key the Map does not hold reads as the empty sequence (getEvents: || [])
saveEvents(st, aggregateId, events) ==
    [st EXCEPT ![aggregateId] = @ \o events]

getEvents(st, aggregateId) == st[aggregateId]

\* the version the store holds for an aggregate id: the store has no such
\* call, so this is the count of the events it persisted, 0 when it has none
currentVersion(st, aggregateId) == Len(getEvents(st, aggregateId))

(* -------------------------- read model store --------------------------- *)
\* a world w is the store's Map with the objects it refers to:
\* [data, keys, heap]. { ...doc, id }: the fields of doc, and id set to the key
WithId(doc, id) ==
    [f \in (DOMAIN doc) \cup {"id"} |-> IF f = "id" THEN id ELSE doc[f]]

\* has(collection, id) of a collection's Map
has(w, collection, id) ==
    \E i \in 1..Len(w.keys[collection]) : w.keys[collection][i] = id

\* save that starts the collection's Map anew on every call
save_NewMap(w, collection, id, doc, ref) ==
    [data |-> [w.data EXCEPT ![collection] = [k \in DocIds |->
                                                 IF k = id THEN ref ELSE NoRef]],
     keys |-> [w.keys EXCEPT ![collection] = <<id>>],
     heap |-> [w.heap EXCEPT ![ref] = WithId(doc, id)]]

save_Merge(w, collection, id, doc, ref) ==
    LET old == IF w.data[collection][id] = NoRef THEN <<>>
               ELSE w.heap[w.data[collection][id]]
        merged == [f \in (DOMAIN old) \cup (DOMAIN doc) |->
                     IF f \in DOMAIN doc THEN doc[f] ELSE old[f]]
    IN  [data |-> [w.data EXCEPT ![collection][id] = ref],
         keys |-> IF has(w, collection, id) THEN w.keys
                  ELSE [w.keys EXCEPT ![collection] = Append(@, id)],
         heap |-> [w.heap EXCEPT ![ref] = WithId(merged, id)]]

\* save stores a new object, { ...doc, id }, under the key; ref is that
\* object. Map.set keeps the place of a key the Map already holds
save(w, collection, id, doc, ref) ==
    [data |-> [w.data EXCEPT ![collection][id] = ref],
     keys |-> IF has(w, collection, id) THEN w.keys
              ELSE [w.keys EXCEPT ![collection] = Append(@, id)],
     heap |-> [w.heap EXCEPT ![ref] = WithId(doc, id)]]

\* get answers the stored object itself, or null
get(w, collection, id) == w.data[collection][id]

matches_AnyField(item, query) ==
    \E key \in DOMAIN query : key \in DOMAIN item /\ item[key] = query[key]

\* item[key] !== value: a field the item lacks reads undefined
matches(item, query) ==
    \A key \in DOMAIN query : key \in DOMAIN item /\ item[key] = query[key]

\* find answers the stored objects that match, in the order of the Map
find(w, collection, query) ==
    LET RECURSIVE results(_)
        results(i) ==
            IF i > Len(w.keys[collection]) THEN <<>>
            ELSE LET item == w.data[collection][w.keys[collection][i]]
                 IN  (IF matches(w.heap[item], query) THEN <<item>> ELSE <<>>)
                         \o results(i + 1)
    IN  results(1)

(* ------------------------------ HTTP API ------------------------------- *)
NoRequest == [route |-> "none", status |-> 0, effects |-> <<>>]

IsWhiteSpace(ch) == ch = " "
IsDigit(ch) == ch = "1"

\* the string without its leading and trailing white space
RECURSIVE Trim(_)
Trim(str) ==
    IF str = <<>> THEN str
    ELSE IF IsWhiteSpace(Head(str)) THEN Trim(Tail(str))
    ELSE IF IsWhiteSpace(str[Len(str)]) THEN Trim(SubSeq(str, 1, Len(str) - 1))
    ELSE str

\* StrDecimalLiteral: an optional sign, then digits with at most one point
StrDecimalLiteral(str) ==
    LET unsigned == IF str # <<>> /\ Head(str) = "-" THEN Tail(str) ELSE str
    IN  /\ \A i \in 1..Len(unsigned) : IsDigit(unsigned[i]) \/ unsigned[i] = "."
        /\ \E i \in 1..Len(unsigned) : IsDigit(unsigned[i])
        /\ Cardinality({i \in 1..Len(unsigned) : unsigned[i] = "."}) <= 1

\* isNaN of a string: Number(str) is 0 for an empty or all-blank string, the
\* number a decimal literal denotes, and NaN for anything else
isNaN(str) ==
    LET trimmed == Trim(str)
    IN  trimmed # <<>> /\ ~StrDecimalLiteral(trimmed)

\* !id || isNaN(id)
InvalidProduceId(id) == id = <<>> \/ isNaN(id)

\* !value of a body field: missing, '' or 0
Falsy(body, field) ==
    \/ field \notin DOMAIN body
    \/ body[field] = (IF field = "initialPrice" THEN 0 ELSE "")

\* the validation of a register request: 0 when it passes
registerValidation(body, required) ==
    IF \E field \in required : Falsy(body, field) THEN 400
    ELSE IF body.initialPrice <= 0 THEN 400
    ELSE 0

mockProduceData == {<<"1">>}

(* ----------------------------- projection ------------------------------ *)
handleProduceRegistered_Toggle(rm, event) ==
    [rm EXCEPT ![event.aggregateId] =
        IF @ = NoDoc THEN [id |-> event.aggregateId, status |-> "REGISTERED"]
        ELSE NoDoc]

\* { id: event.aggregateId, ...event.eventData, status: 'REGISTERED',
\*   createdAt: event.timestamp }, set under the aggregate id
handleProduceRegistered(rm, event) ==
    LET eventData == event.eventData
        produce == [f \in {"id", "status", "createdAt"} \cup DOMAIN eventData |->
                      IF f = "createdAt" THEN event.timestamp
                      ELSE IF f = "status" THEN "REGISTERED"
                      ELSE IF f \in DOMAIN eventData THEN eventData[f]
                      ELSE event.aggregateId]
    IN  [rm EXCEPT ![event.aggregateId] = produce]

\* the switch of project: its other two cases, 'ProduceUpdated' and
\* 'ProduceTransferred', name no event type of ProduceEvents.ts, and an
\* event of any other type matches no case
project(rm, event) ==
    IF event.eventType = "ProduceRegistered"
    THEN handleProduceRegistered(rm, event)
    ELSE rm

(* ----------------------------- command bus ----------------------------- *)
commandType(command) == command.kind

registerHandler_FirstWins(hs, kind, handler) ==
    IF hs[kind] = NoHandler THEN [hs EXCEPT ![kind] = handler] ELSE hs

registerHandler(hs, kind, handler) == [hs EXCEPT ![kind] = handler]

\* send up to the call of the handler: the handler found, or the Error thrown
sendDispatch_Silent(hs, command) ==
    [handler |-> hs[commandType(command)], err |-> NoError]

sendDispatch(hs, command) ==
    LET handler == hs[commandType(command)]
    IN  IF handler = NoHandler
        THEN [handler |-> NoHandler, err |-> NoHandlerRegistered]
        ELSE [handler |-> handler, err |-> NoError]

\* await handler.handle(command): send settles once the handler run (at
\* position hpc, ended with herr) is over, and with its outcome
sendAwait_NoAwait(hpc, herr) == [settled |-> TRUE, err |-> herr]

sendAwait_Swallow(hpc, herr) == [settled |-> hpc = "done", err |-> NoError]

sendAwait(hpc, herr) == [settled |-> hpc = "done", err |-> herr]

(* --------------------------- command handlers -------------------------- *)
\* RegisterProduceHandler.handle up to its await: the save call
RegisterProduceHandler_handle(w, command, now, ref) ==
    save(w, "produces", command.produceId,
         [id |-> command.produceId, farmerId |-> command.farmerId,
          origin |-> command.origin, quality |-> command.quality,
          currentPrice |-> command.initialPrice, status |-> "REGISTERED",
          createdAt |-> now, updatedAt |-> now], ref)

\* UpdateProduceQualityHandler.handle up to its first await: the get call
UpdateProduceQualityHandler_handle(w, command) ==
    get(w, "produces", command.produceId)

UpdateProduceQualityHandler_resume_Upsert(w, produce, command, now, ref) ==
    IF produce = NoRef
    THEN [w |-> save(w, "produces", command.produceId,
                     [quality |-> command.newQuality, updatedAt |-> now], ref),
          err |-> NoError]
    ELSE LET h1 == [w.heap EXCEPT ![produce].quality = command.newQuality,
                                  ![produce].updatedAt = now]
         IN  [w |-> save([w EXCEPT !.heap = h1], "produces",
                         command.produceId, h1[produce], ref),
              err |-> NoError]

UpdateProduceQualityHandler_resume_KeepsQuality(w, produce, command, now, ref) ==
    IF produce = NoRef
    THEN [w |-> w, err |-> NotFound]
    ELSE LET h1 == [w.heap EXCEPT ![produce].updatedAt = now]
         IN  [w |-> save([w EXCEPT !.heap = h1], "produces",
                         command.produceId, h1[produce], ref),
              err |-> NoError]

\* UpdateProduceQualityHandler.handle after the get: produce is the object
\* get answered; it is changed in place and a copy of it is saved
UpdateProduceQualityHandler_resume(w, produce, command, now, ref) ==
    IF produce = NoRef
    THEN [w |-> w, err |-> NotFound]
    ELSE LET h1 == [w.heap EXCEPT ![produce].quality = command.newQuality,
                                  ![produce].updatedAt = now]
         IN  [w |-> save([w EXCEPT !.heap = h1], "produces",
                         command.produceId, h1[produce], ref),
              err |-> NoError]

(* ----------------------------- contracts ------------------------------- *)
\* the value a mapping answers for a key never written: every field zero
NoProduce == [id |-> 0, farmer |-> ZeroAddress, isActive |-> FALSE]
NoTransfer == [id |-> 0, produceId |-> 0, from |-> ZeroAddress, to |-> ZeroAddress]

\* ProduceRegistry.registerProduce sent by sender
registerProduce(ps, count, sender) ==
    [produces |-> [ps EXCEPT ![count + 1] =
                      [id |-> count + 1, farmer |-> sender, isActive |-> TRUE]],
     produceCount |-> count + 1]

\* ProduceRegistry.deactivateProduce(id) sent by sender: onlyFarmer reverts
\* for anyone else
deactivateProduce(ps, id, sender) ==
    IF ps[id].farmer # sender
    THEN [produces |-> ps, reverted |-> TRUE]
    ELSE [produces |-> [ps EXCEPT ![id].isActive = FALSE], reverted |-> FALSE]

\* TransferContract.logTransfer(produceId, to, _) sent by sender: farmer and
\* isActive are those fields of produceRegistry.produces(produceId)
logTransfer(ps, ts, count, sender, produceId, to) ==
    LET farmer == ps[produceId].farmer
        isActive == ps[produceId].isActive
    IN  IF ~isActive
        THEN [transfers |-> ts, transferCount |-> count, reverted |-> TRUE]
        ELSE IF ~(sender = farmer \/ ts[count].to = sender)
        THEN [transfers |-> ts, transferCount |-> count, reverted |-> TRUE]
        ELSE [transfers |-> [ts EXCEPT ![count + 1] =
                                [id |-> count + 1, produceId |-> produceId,
                                 from |-> sender, to |-> to]],
              transferCount |-> count + 1,
              reverted |-> FALSE]

(* ------------------------------ actions -------------------------------- *)
\* the read model store as it is now
readModelStore == [data |-> data, keys |-> keys, heap |-> heap]

\* no send in flight: pc is the position of send, hpc that of the handler run
NoSend ==
    [pc |-> "idle", command |-> NoCommand, handler |-> NoHandler, hpc |-> "none",
     produce |-> NoRef, herr |-> NoError, err |-> NoError, invoked |-> <<>>]

\* the objects the Map or a running handler refers to
Referenced(d, ss) ==
    {d[col][id] : col \in Collections, id \in DocIds}
        \cup {ss[s].produce : s \in Senders}

\* an object no one refers to: the one a save creates
FreshRef(d, ss) == CHOOSE r \in Refs : r \notin Referenced(d, ss)

\* every place that refers to an object, in a fixed order: the keys of the
\* Map, then the handler runs
Referrers(d, ss) ==
    LET ofCollection(i) == [j \in 1..Len(NewIds) |-> d[CollectionSeq[i]][NewIds[j]]]
        RECURSIVE ofMap(_)
        ofMap(i) == IF i > Len(CollectionSeq) THEN <<>>
                    ELSE ofCollection(i) \o ofMap(i + 1)
    IN  ofMap(1) \o [j \in 1..Len(SenderSeq) |-> ss[SenderSeq[j]].produce]

\* objects have no name in the program: objects no one refers to any more
\* are gone, and the others are named in the order of their referrers
Collect(h, d, ss) ==
    LET refs == Referrers(d, ss)
        first(r) == CHOOSE i \in 1..Len(refs) :
                        refs[i] = r /\ \A j \in 1..(i - 1) : refs[j] # r
        name(r) == IF r = NoRef THEN NoRef
                   ELSE RefSeq[Cardinality({refs[j] : j \in 1..first(r)} \ {NoRef})]
        named == {r \in Refs : r \in Referenced(d, ss)}
    IN  [data |-> [col \in Collections |-> [id \in DocIds |-> name(d[col][id])]],
         sends |-> [s \in Senders |-> [ss[s] EXCEPT !.produce = name(@)]],
         heap |-> [r \in Refs |->
                     IF \E o \in named : name(o) = r
                     THEN h[CHOOSE o \in named : name(o) = r]
                     ELSE NoDoc]]

Init ==
    /\ store = [id \in AggIds |-> <<>>]
    /\ local = [c \in Callers |-> NoAgg]
    /\ committed = [c \in Callers |-> 0]
    /\ nextId = 1
    /\ nextEventId = 1
    /\ clock = 0
    /\ last = [op |-> "init"]
    /\ lastSave = [c \in Callers |-> NoSave]
    /\ handlers = [k \in Kinds |-> NoHandler]
    /\ registered = [k \in Kinds |-> [latest |-> NoHandler, replaced |-> NoHandler]]
    /\ data = [col \in Collections |-> [id \in DocIds |-> NoRef]]
    /\ keys = [col \in Collections |-> <<>>]
    /\ heap = [r \in Refs |-> NoDoc]
    /\ sends = [s \in Senders |-> NoSend]
    /\ readModel = [id \in AggIds |-> NoDoc]
    /\ http = NoRequest
    /\ produces = [id \in ProduceIds |-> NoProduce]
    /\ produceCount = 0
    /\ transfers = [id \in 0..MaxTransfers |-> NoTransfer]
    /\ transferCount = 0

\* time passes between two calls
Tick ==
    /\ clock + 1 \in Times
    /\ clock' = clock + 1
    /\ last' = [op |-> "tick"]
    /\ UNCHANGED <<store, local, committed, nextId, nextEventId, lastSave>>
    /\ UNCHANGED busVars

\* the outcome r of an aggregate operation called by c on the instance it holds
Outcome(c, r) ==
    /\ r.err # NoError \/ nextEventId <= MaxEvents
    /\ local' = [local EXCEPT ![c] = r.agg]
    /\ nextEventId' = IF r.err = NoError THEN nextEventId + 1 ELSE nextEventId
    /\ UNCHANGED <<store, committed, nextId, clock, lastSave>>
    /\ UNCHANGED busVars

Register(c) ==
    /\ nextId <= Len(NewIds)
    /\ nextEventId <= MaxEvents
    /\ \E farmerId \in Farmers, origin \in Origins, quality \in InitialQualities,
          initialPrice \in Prices :
          LET r == register(NewIds[nextId], farmerId, origin, quality, initialPrice,
                            clock, nextEventId)
          IN  /\ local' = [local EXCEPT ![c] = r.agg]
              /\ last' = [op |-> "register", caller |-> c, initialPrice |-> initialPrice,
                          err |-> r.err]
    /\ committed' = [committed EXCEPT ![c] = 0]
    /\ nextId' = nextId + 1
    /\ nextEventId' = nextEventId + 1
    /\ UNCHANGED <<store, clock, lastSave>>
    /\ UNCHANGED busVars

UpdateQuality(c) ==
    /\ local[c] # NoAgg
    /\ \E newQuality \in Qualities, updaterId \in Parties :
          LET r == updateQuality(local[c], newQuality, updaterId, clock, nextEventId)
          IN  /\ Outcome(c, r)
              /\ last' = [op |-> "updateQuality", caller |-> c, updaterId |-> updaterId,
                          err |-> r.err]

UpdatePrice(c) ==
    /\ local[c] # NoAgg
    /\ \E newPrice \in Prices, updaterId \in Farmers :
          LET r == updatePrice(local[c], newPrice, updaterId, clock, nextEventId)
          IN  /\ Outcome(c, r)
              /\ last' = [op |-> "updatePrice", caller |-> c, newPrice |-> newPrice,
                          err |-> r.err]

Deactivate(c) ==
    /\ local[c] # NoAgg
    /\ LET r == deactivate(local[c], clock, nextEventId)
       IN  /\ Outcome(c, r)
           /\ last' = [op |-> "deactivate", caller |-> c, err |-> r.err]

\* c rebuilds the aggregate aggregateId from the events the store holds for it
Load(c, aggregateId) ==
    LET events == getEvents(store, aggregateId)
        r == fromEvents(events, clock)
    IN  /\ IF r.err = NoError
           THEN /\ local' = [local EXCEPT ![c] = r.agg]
                /\ committed' = [committed EXCEPT ![c] = Len(events)]
           ELSE UNCHANGED <<local, committed>>
        /\ last' = [op |-> "fromEvents", caller |-> c, aggregateId |-> aggregateId,
                    err |-> r.err]
        /\ UNCHANGED <<store, nextId, nextEventId, clock, lastSave>>
        /\ UNCHANGED busVars

\* c appends the events its aggregate emitted; its expectedVersion is the
\* number of events it knows to be persisted, which saveEvents has no
\* parameter for: the call cannot fail
Save(c) ==
    /\ local[c] # NoAgg
    /\ LET events == getUncommittedEvents(local[c])
           expectedVersion == committed[c]
       IN  /\ store' = saveEvents(store, local[c].id, events)
           /\ local' = [local EXCEPT ![c] = markEventsAsCommitted(@)]
           /\ committed' = [committed EXCEPT ![c] = @ + Len(events)]
           /\ last' = [op |-> "saveEvents", caller |-> c, aggregateId |-> local[c].id,
                       expectedVersion |-> expectedVersion, count |-> Len(events),
                       err |-> NoError]
           /\ lastSave' = [lastSave EXCEPT ![c] =
                              [id |-> local[c].id, expectedVersion |-> expectedVersion,
                               count |-> Len(events), err |-> NoError]]
    /\ UNCHANGED <<nextId, nextEventId, clock>>
    /\ UNCHANGED busVars

\* one caller at a time: a caller registers or rebuilds an aggregate, operates
\* on it and saves, while time passes
FirstCaller == "h1"

Next ==
    \/ Tick
    \/ Register(FirstCaller)
    \/ UpdateQuality(FirstCaller)
    \/ UpdatePrice(FirstCaller)
    \/ Deactivate(FirstCaller)
    \/ \E aggregateId \in AggIds : Load(FirstCaller, aggregateId)
    \/ Save(FirstCaller)

Spec == Init /\ [][Next]_vars

\* concurrent callers: every store access (getEvents in Load, saveEvents in Save)
\* of one caller may fall between those of another
NextConc ==
    \/ \E c \in Callers : Register(c)
    \/ \E c \in Callers : Deactivate(c)
    \/ \E c \in Callers, aggregateId \in AggIds : Load(c, aggregateId)
    \/ \E c \in Callers : Save(c)

SpecConc == Init /\ [][NextConc]_vars

\* another writer appends to a stream that exists an event of a type the
\* aggregate has no case for; it numbers the event by its place in the stream
ForeignEventType == "ProduceTransferred"

AppendForeign(aggregateId) ==
    /\ nextEventId <= MaxEvents
    /\ Len(getEvents(store, aggregateId)) >= 1
    /\ LET event == BaseDomainEvent(nextEventId, ForeignEventType, aggregateId,
                                    [to |-> "carrier-3"],
                                    Len(getEvents(store, aggregateId)) + 1, clock)
       IN  /\ store' = saveEvents(store, aggregateId, <<event>>)
           /\ last' = [op |-> "appendForeign", aggregateId |-> aggregateId]
    /\ nextEventId' = nextEventId + 1
    /\ UNCHANGED <<local, committed, nextId, clock, lastSave>>
    /\ UNCHANGED busVars

\* one caller, and streams that hold events of other writers
NextReplay ==
    \/ Register(FirstCaller)
    \/ UpdateQuality(FirstCaller)
    \/ UpdatePrice(FirstCaller)
    \/ Deactivate(FirstCaller)
    \/ \E aggregateId \in AggIds : Load(FirstCaller, aggregateId)
    \/ Save(FirstCaller)
    \/ \E aggregateId \in AggIds : AppendForeign(aggregateId)

SpecReplay == Init /\ [][NextReplay]_vars

(* --------------------------- command bus steps ------------------------- *)
RegisterCommands ==
    {[kind |-> "RegisterProduceCommand", produceId |-> id, farmerId |-> f,
      origin |-> o, quality |-> q, initialPrice |-> p] :
        id \in DocIds, f \in Farmers, o \in Origins, q \in InitialQualities,
        p \in CommandPrices}

UpdateCommands ==
    {[kind |-> "UpdateProduceQualityCommand", produceId |-> id, newQuality |-> q,
      updaterId |-> u] : id \in DocIds, q \in CommandQualities, u \in Farmers}

Commands == RegisterCommands \cup UpdateCommands

RegisterHandler(kind, handler) ==
    /\ handlers' = registerHandler(handlers, kind, handler)
    /\ registered' = [registered EXCEPT
                         ![kind] = [latest |-> handler, replaced |-> @.latest]]
    /\ UNCHANGED <<data, keys, heap, sends, readModel, http>>
    /\ UNCHANGED aggVars
    /\ UNCHANGED chainVars

\* s calls send(command): the lookup and, when a handler is bound, the part
\* of handle that runs before its first await
Send(s, command) ==
    /\ sends[s].pc \in {"idle", "settled"}
    /\ sends[s].hpc \in {"none", "done"}
    /\ LET d == sendDispatch(handlers, command)
           called == [NoSend EXCEPT !.pc = "awaiting", !.command = command,
                                    !.handler = d.handler, !.invoked = <<d.handler>>]
       IN  IF d.handler = NoHandler
           THEN /\ sends' = [sends EXCEPT ![s] =
                                [NoSend EXCEPT !.pc = "settled", !.command = command,
                                               !.err = d.err]]
                /\ UNCHANGED <<data, keys, heap>>
           ELSE IF d.handler \in RegisterHandlers
           THEN LET w == RegisterProduceHandler_handle(
                             readModelStore, command, clock,
                             FreshRef(data, sends))
                    ss == [sends EXCEPT ![s] = [called EXCEPT !.hpc = "awaitSave"]]
                    n == Collect(w.heap, w.data, ss)
                IN  /\ keys' = w.keys
                    /\ data' = n.data
                    /\ heap' = n.heap
                    /\ sends' = n.sends
           ELSE LET produce == UpdateProduceQualityHandler_handle(
                                   readModelStore, command)
                    ss == [sends EXCEPT ![s] = [called EXCEPT !.hpc = "awaitGet",
                                                              !.produce = produce]]
                    n == Collect(heap, data, ss)
                IN  /\ UNCHANGED keys
                    /\ data' = n.data
                    /\ heap' = n.heap
                    /\ sends' = n.sends
    /\ UNCHANGED <<handlers, registered, readModel, http>>
    /\ UNCHANGED aggVars
    /\ UNCHANGED chainVars

\* the handler run of s goes on after the await it stood at
HandlerResume(s) ==
    /\ sends[s].hpc \in {"awaitGet", "awaitSave"}
    /\ IF sends[s].hpc = "awaitSave"
       THEN LET ss == [sends EXCEPT ![s].hpc = "done", ![s].produce = NoRef]
                n == Collect(heap, data, ss)
            IN  /\ UNCHANGED keys
                /\ data' = n.data
                /\ heap' = n.heap
                /\ sends' = n.sends
       ELSE LET r == UpdateProduceQualityHandler_resume(
                         readModelStore, sends[s].produce,
                         sends[s].command, clock, FreshRef(data, sends))
                ss == IF r.err = NoError
                      THEN [sends EXCEPT ![s].hpc = "awaitSave"]
                      ELSE [sends EXCEPT ![s].hpc = "done", ![s].herr = r.err,
                                         ![s].produce = NoRef]
                n == Collect(r.w.heap, r.w.data, ss)
            IN  /\ keys' = r.w.keys
                /\ data' = n.data
                /\ heap' = n.heap
                /\ sends' = n.sends
    /\ UNCHANGED <<handlers, registered, readModel, http>>
    /\ UNCHANGED aggVars
    /\ UNCHANGED chainVars

\* the send call of s settles: it resolves, or rejects with err
Settle(s) ==
    /\ sends[s].pc = "awaiting"
    /\ LET r == sendAwait(sends[s].hpc, sends[s].herr)
       IN  /\ r.settled
           /\ sends' = [sends EXCEPT ![s].pc = "settled", ![s].err = r.err]
    /\ UNCHANGED <<handlers, registered, data, keys, heap, readModel, http>>
    /\ UNCHANGED aggVars
    /\ UNCHANGED chainVars

\* one sender, and the update commands of any party for any quality
FirstSender == "s1"

AnyUpdateCommands ==
    {[kind |-> "UpdateProduceQualityCommand", produceId |-> id, newQuality |-> q,
      updaterId |-> u] : id \in DocIds, q \in Qualities, u \in Parties}

NextSeq ==
    \/ \E kind \in Kinds : \E handler \in HandlersOf(kind) : RegisterHandler(kind, handler)
    \/ \E command \in RegisterCommands \cup AnyUpdateCommands : Send(FirstSender, command)
    \/ HandlerResume(FirstSender)
    \/ Settle(FirstSender)

SpecSeq == Init /\ [][NextSeq]_vars

NextBus ==
    \/ \E kind \in Kinds : \E handler \in HandlersOf(kind) : RegisterHandler(kind, handler)
    \/ \E s \in Senders, command \in Commands : Send(s, command)
    \/ \E s \in Senders : HandlerResume(s)
    \/ \E s \in Senders : Settle(s)

SpecBus == Init /\ [][NextBus]_vars

\* two senders and one produce: the register command of its farmer and the
\* update commands for any quality
RaceId == NewIds[1]

RaceCommands ==
    {c \in RegisterCommands \cup AnyUpdateCommands :
        /\ c.produceId = RaceId
        /\ c.kind = "UpdateProduceQualityCommand" => c.updaterId \in Farmers}

NextRace ==
    \/ \E kind \in Kinds : \E handler \in HandlersOf(kind) : RegisterHandler(kind, handler)
    \/ \E s \in Senders, command \in RaceCommands : Send(s, command)
    \/ \E s \in Senders : HandlerResume(s)
    \/ \E s \in Senders : Settle(s)

SpecRace == Init /\ [][NextRace]_vars

(* ------------------------------ HTTP steps ----------------------------- *)
httpFrame == <<store, local, committed, nextId, nextEventId, clock, last, lastSave,
               handlers, registered, data, keys, heap, sends, readModel>>

\* a request is answered at once, or waits (status 0) for the outside call
\* made for it
Received(route, input, status, effects) ==
    /\ http' = [route |-> route, input |-> input, status |-> status,
                effects |-> effects]
    /\ UNCHANGED httpFrame
    /\ UNCHANGED chainVars

\* GET /api/produce/:id
GetProduce(id) ==
    IF InvalidProduceId(id)
    THEN Received("GET /api/produce/:id", id, 400, <<>>)
    ELSE Received("GET /api/produce/:id", id, 0, <<"produceRegistry.getProduce">>)

\* GET /api/qr/:id
GetQr(id) ==
    IF InvalidProduceId(id)
    THEN Received("GET /api/qr/:id", id, 400, <<>>)
    ELSE Received("GET /api/qr/:id", id, 0, <<"QRCode.toDataURL">>)

\* POST /api/register-produce; new ethers.Wallet may throw before the
\* transaction is submitted
PostRegisterProduce(body) ==
    IF registerValidation(body, RouteFields) # 0
    THEN Received("POST /api/register-produce", body,
                  registerValidation(body, RouteFields), <<>>)
    ELSE \/ Received("POST /api/register-produce", body, 500, <<>>)
         \/ Received("POST /api/register-produce", body, 0, <<"registerProduce">>)

\* CQRSController.registerProduce
ControllerRegisterProduce(body) ==
    IF registerValidation(body, ControllerFields) # 0
    THEN Received("CQRSController.registerProduce", body,
                  registerValidation(body, ControllerFields), <<>>)
    ELSE Received("CQRSController.registerProduce", body, 0, <<"commandBus.send">>)

\* the outside call of the waiting request returns (ok) or throws
Respond(ok) ==
    /\ http.status = 0
    /\ http.route # "none"
    /\ http' = [http EXCEPT !.status =
                  IF http.route = "GET /api/produce/:id"
                  THEN (IF ok \/ http.input \in mockProduceData THEN 200 ELSE 404)
                  ELSE IF ok
                  THEN (IF http.route = "CQRSController.registerProduce" THEN 201 ELSE 200)
                  ELSE 500]
    /\ UNCHANGED httpFrame
    /\ UNCHANGED chainVars

NextHttp ==
    \/ \E id \in PathIds : GetProduce(id)
    \/ \E id \in PathIds : GetQr(id)
    \/ \E body \in PricedBodies : PostRegisterProduce(body)
    \/ \E body \in PricedBodies : ControllerRegisterProduce(body)
    \/ \E ok \in BOOLEAN : Respond(ok)

SpecHttp == Init /\ [][NextHttp]_vars

(* --------------------------- projection steps -------------------------- *)
\* the projection is handed the k-th event persisted for aggregateId; nothing
\* keeps it from being handed the same event again
Project(aggregateId, k) ==
    /\ k \in 1..Len(getEvents(store, aggregateId))
    /\ LET event == getEvents(store, aggregateId)[k]
       IN  /\ readModel' = project(readModel, event)
           /\ last' = [op |-> "project", event |-> event,
                       before |-> readModel[aggregateId]]
    /\ UNCHANGED <<store, local, committed, nextId, nextEventId, clock, lastSave>>
    /\ UNCHANGED <<handlers, registered, data, keys, heap, sends, http>>
    /\ UNCHANGED chainVars

NextProj ==
    \/ Tick
    \/ Register(FirstCaller)
    \/ UpdateQuality(FirstCaller)
    \/ Save(FirstCaller)
    \/ \E aggregateId \in AggIds, k \in 1..MaxEvents : Project(aggregateId, k)

SpecProj == Init /\ [][NextProj]_vars

(* ------------------------ read model store steps ----------------------- *)
storeFrame == <<store, local, committed, nextId, nextEventId, clock, lastSave,
                handlers, registered, readModel, http>>

\* the document stored under a key, or NoDoc
Stored(collection, id) ==
    IF data[collection][id] = NoRef THEN NoDoc ELSE heap[data[collection][id]]

\* a client calls save(collection, id, doc)
StoreSave(collection, id, doc) ==
    /\ LET w == save(readModelStore, collection, id, doc, FreshRef(data, sends))
           n == Collect(w.heap, w.data, sends)
       IN  /\ keys' = w.keys
           /\ data' = n.data
           /\ heap' = n.heap
           /\ sends' = n.sends
    /\ last' = [op |-> "save", collection |-> collection, id |-> id, doc |-> doc,
                before |-> Stored(collection, id)]
    /\ UNCHANGED storeFrame
    /\ UNCHANGED chainVars

\* a client calls get(collection, id)
StoreGet(collection, id) ==
    /\ last' = [op |-> "get", collection |-> collection, id |-> id,
                result |-> get(readModelStore, collection, id)]
    /\ UNCHANGED <<data, keys, heap, sends>>
    /\ UNCHANGED storeFrame
    /\ UNCHANGED chainVars

\* a client calls find(collection, query)
StoreFind(collection, query) ==
    /\ last' = [op |-> "find", collection |-> collection, query |-> query,
                results |-> find(readModelStore, collection, query)]
    /\ UNCHANGED <<data, keys, heap, sends>>
    /\ UNCHANGED storeFrame
    /\ UNCHANGED chainVars

NextStore ==
    \/ \E collection \in Collections, id \in DocIds, doc \in StoreDocs :
          StoreSave(collection, id, doc)
    \/ \E collection \in Collections, id \in DocIds : StoreGet(collection, id)
    \/ \E collection \in Collections, query \in Queries : StoreFind(collection, query)

SpecStore == Init /\ [][NextStore]_vars

\* the client that called get sets a field of the object get answered, as
\* UpdateProduceQualityHandler does with produce.quality
StoreModify(quality) ==
    /\ last.op = "get"
    /\ last.result # NoRef
    /\ heap' = [heap EXCEPT ![last.result] =
                    [f \in (DOMAIN @) \cup {"quality"} |->
                        IF f = "quality" THEN quality ELSE @[f]]]
    /\ last' = [op |-> "modify", collection |-> last.collection, id |-> last.id,
                quality |-> quality]
    /\ UNCHANGED <<data, keys, sends>>
    /\ UNCHANGED storeFrame
    /\ UNCHANGED chainVars

\* the clients of one collection
NextAlias ==
    \/ \E id \in DocIds, doc \in StoreDocs : StoreSave(CollectionSeq[1], id, doc)
    \/ \E id \in DocIds : StoreGet(CollectionSeq[1], id)
    \/ \E query \in Queries : StoreFind(CollectionSeq[1], query)
    \/ \E quality \in CommandQualities : StoreModify(quality)

SpecAlias == Init /\ [][NextAlias]_vars

(* --------------------------- contract steps ---------------------------- *)
chainFrame == <<store, local, committed, nextId, nextEventId, clock, lastSave,
                handlers, registered, data, keys, heap, sends, readModel, http>>

RegisterProduce(sender) ==
    /\ produceCount < MaxProduce
    /\ LET r == registerProduce(produces, produceCount, sender)
       IN  /\ produces' = r.produces
           /\ produceCount' = r.produceCount
    /\ last' = [op |-> "registerProduce", sender |-> sender, reverted |-> FALSE]
    /\ UNCHANGED <<transfers, transferCount>>
    /\ UNCHANGED chainFrame

DeactivateProduce(sender, id) ==
    /\ LET r == deactivateProduce(produces, id, sender)
       IN  /\ produces' = r.produces
           /\ last' = [op |-> "deactivateProduce", sender |-> sender, id |-> id,
                       reverted |-> r.reverted]
    /\ UNCHANGED <<produceCount, transfers, transferCount>>
    /\ UNCHANGED chainFrame

LogTransfer(sender, produceId, to) ==
    /\ LET r == logTransfer(produces, transfers, transferCount, sender, produceId, to)
       IN  /\ r.reverted \/ transferCount < MaxTransfers
           /\ transfers' = r.transfers
           /\ transferCount' = r.transferCount
           /\ last' = [op |-> "logTransfer", sender |-> sender,
                       produceId |-> produceId, to |-> to, reverted |-> r.reverted]
    /\ UNCHANGED <<produces, produceCount>>
    /\ UNCHANGED chainFrame

NextChain ==
    \/ \E sender \in Accounts : RegisterProduce(sender)
    \/ \E sender \in Accounts, id \in ProduceIds : DeactivateProduce(sender, id)
    \/ \E sender \in Accounts, produceId \in ProduceIds, to \in Accounts :
          LogTransfer(sender, produceId, to)

SpecChain == Init /\ [][NextChain]_vars

(* ------------------------------ claims --------------------------------- *)
\* the aggregate rebuilt from the first n events of a stream
Rebuilt(events, n) == fromEvents(SubSeq(events, 1, n), 0).agg

HasDeactivated(events, n) ==
    \E k \in 1..n : events[k].eventType = "ProduceDeactivated"

\* C1: an append whose expectedVersion differs from the number of events
\* persisted for the id fails with ConcurrencyConflict and leaves the stream
\* of that id as it was.
C1_StaleAppendIsRejected ==
    [][\A c \in Callers :
          (/\ last'.op = "saveEvents"
           /\ last'.caller = c
           /\ committed[c] # Len(getEvents(store, local[c].id)))
          => (/\ last'.err = ConcurrencyConflict
              /\ getEvents(store', local[c].id) = getEvents(store, local[c].id))]_vars

\* C2: of two appends for the same aggregate id that carry the same
\* expectedVersion exactly one succeeds and the other fails with
\* ConcurrencyConflict; the stream never holds both batches.
C2_OneOfTwoAppendsWins ==
    \A c, d \in Callers :
        (/\ c # d
         /\ lastSave[c] # NoSave /\ lastSave[d] # NoSave
         /\ lastSave[c].id = lastSave[d].id
         /\ lastSave[c].expectedVersion = lastSave[d].expectedVersion
         /\ lastSave[c].count > 0 /\ lastSave[d].count > 0)
        => (/\ {lastSave[c].err, lastSave[d].err} = {NoError, ConcurrencyConflict}
            /\ Len(getEvents(store, lastSave[c].id))
                   < lastSave[c].expectedVersion + lastSave[c].count + lastSave[d].count)

\* C3: the k-th event read back for an aggregate id has version k.
C3_VersionMonotonicity ==
    \A id \in AggIds :
        \A k \in 1..Len(getEvents(store, id)) : getEvents(store, id)[k].version = k

\* C4: the version of an aggregate equals the number of events applied to it,
\* those taken from the store and those still pending; rebuilt from the
\* registration event alone it is 1.
C4_VersionCountsAppliedEvents ==
    \A c \in Callers :
        local[c] # NoAgg => local[c].version = committed[c] + Len(local[c].events)

\* C5: updateQuality by an updaterId other than the aggregate's farmerId fails
\* with Unauthorized and changes nothing of the aggregate: quality, status,
\* version and the uncommitted events stay as they were.
C5_AuthorizationGuard ==
    [][\A c \in Callers :
          (/\ last'.op = "updateQuality"
           /\ last'.caller = c
           /\ last'.updaterId # local[c].farmerId)
          => (/\ last'.err = Unauthorized
              /\ local'[c] = local[c])]_vars

C5_Witness ==
    /\ last.op = "updateQuality"
    /\ last.updaterId # local[last.caller].farmerId
    /\ last.err = Unauthorized
    /\ local[last.caller].version >= 1

\* C6: updatePrice with a positive price on an INACTIVE aggregate fails with
\* InvalidState and leaves currentPrice, version and the uncommitted events
\* as they were.
C6_InactivePriceIsRejected ==
    [][\A c \in Callers :
          (/\ last'.op = "updatePrice"
           /\ last'.caller = c
           /\ local[c].status = "INACTIVE"
           /\ last'.newPrice > 0)
          => (/\ last'.err = InvalidState
              /\ local'[c] = local[c])]_vars

\* C7: updateQuality by the owning farmer on an INACTIVE aggregate fails with
\* InvalidState and leaves quality, version and the uncommitted events as
\* they were.
C7_InactiveQualityIsRejected ==
    [][\A c \in Callers :
          (/\ last'.op = "updateQuality"
           /\ last'.caller = c
           /\ last'.updaterId = local[c].farmerId
           /\ local[c].status = "INACTIVE")
          => (/\ last'.err = InvalidState
              /\ local'[c] = local[c])]_vars

C7_Witness ==
    /\ last.op = "updateQuality"
    /\ last.updaterId = local[last.caller].farmerId
    /\ local[last.caller].status = "INACTIVE"
    /\ last.err = InvalidState

\* C8: INACTIVE is terminal. No updateQuality, updatePrice, deactivate (or
\* commit) on an instance that is INACTIVE gives it another status, and a
\* rebuild from any history that extends one holding ProduceDeactivated
\* yields INACTIVE.
C8_InactiveIsTerminal ==
    /\ [][\A c \in Callers :
             (/\ local[c] # NoAgg
              /\ local[c].status = "INACTIVE"
              /\ ~(last'.op \in {"register", "fromEvents"} /\ last'.caller = c))
             => (local'[c] # NoAgg /\ local'[c].status = "INACTIVE")]_vars
    /\ [](\A id \in AggIds :
             \A n \in 1..Len(getEvents(store, id)) :
                 HasDeactivated(getEvents(store, id), n)
                 => Rebuilt(getEvents(store, id), n).status = "INACTIVE")

\* a stored history goes on after its ProduceDeactivated, and an INACTIVE
\* instance has been operated on
C8_Witness ==
    /\ \E id \in AggIds :
           /\ Len(getEvents(store, id)) >= 3
           /\ HasDeactivated(getEvents(store, id), 2)
    /\ \E c \in Callers :
           /\ local[c] # NoAgg
           /\ local[c].status = "INACTIVE"
           /\ local[c].version >= 3

\* C9: currentPrice > 0 in every aggregate state, whatever register was
\* given.
C9_PriceIsPositive ==
    \A c \in Callers : local[c] # NoAgg => local[c].currentPrice > 0

\* C10: register with initialPrice <= 0 fails with InvalidPrice: the caller
\* gets no aggregate and no ProduceRegistered event is emitted.
C10_RegisterRejectsBadPrice ==
    [][(last'.op = "register" /\ last'.initialPrice <= 0)
          => (/\ last'.err = InvalidPrice
              /\ local' = local
              /\ nextEventId' = nextEventId)]_vars

\* C11: register with initialPrice > 0 returns an aggregate of version 1 and
\* status REGISTERED whose initialPrice and currentPrice are the given price,
\* holding exactly one uncommitted event: a ProduceRegistered of version 1
\* that carries the aggregate's id.
C11_RegisterResult ==
    (last.op = "register" /\ last.initialPrice > 0)
    => LET a == local[last.caller]
       IN  /\ last.err = NoError
           /\ a # NoAgg
           /\ a.version = 1
           /\ a.status = "REGISTERED"
           /\ a.initialPrice = last.initialPrice
           /\ a.currentPrice = last.initialPrice
           /\ Len(getUncommittedEvents(a)) = 1
           /\ getUncommittedEvents(a)[1].eventType = "ProduceRegistered"
           /\ getUncommittedEvents(a)[1].version = 1
           /\ getUncommittedEvents(a)[1].aggregateId = a.id

C11_Witness ==
    /\ last.op = "register"
    /\ last.initialPrice = 150
    /\ local[last.caller].currentPrice = 150

\* C12: updatePrice with newPrice <= 0 fails with InvalidPrice in every
\* aggregate state and leaves currentPrice, version and the uncommitted
\* events as they were.
C12_BadPriceIsRejected ==
    [][\A c \in Callers :
          (/\ last'.op = "updatePrice"
           /\ last'.caller = c
           /\ last'.newPrice <= 0)
          => (/\ last'.err = InvalidPrice
              /\ local'[c] = local[c])]_vars

C12_Witness ==
    /\ last.op = "updatePrice"
    /\ last.newPrice <= 0
    /\ last.err = InvalidPrice
    /\ local[last.caller].status = "INACTIVE"

\* C13: deactivate on an aggregate that is already INACTIVE is allowed but
\* emits no further event and leaves version as it was.
C13_DeactivateIsIdempotent ==
    [][\A c \in Callers :
          (/\ last'.op = "deactivate"
           /\ last'.caller = c
           /\ local[c].status = "INACTIVE")
          => (/\ last'.err = NoError
              /\ local'[c].version = local[c].version
              /\ getUncommittedEvents(local'[c]) = getUncommittedEvents(local[c]))]_vars

\* the fields of an aggregate that a rebuild yields
FieldValues(a) ==
    [id |-> a.id, farmerId |-> a.farmerId, origin |-> a.origin, quality |-> a.quality,
     initialPrice |-> a.initialPrice, currentPrice |-> a.currentPrice,
     status |-> a.status, createdAt |-> a.createdAt, updatedAt |-> a.updatedAt,
     version |-> a.version]

\* C14: two rebuilds from the same full history, whenever they are made,
\* yield the same id, farmerId, origin, quality, initialPrice, currentPrice,
\* status, createdAt, updatedAt and version.
C14_ReplayDeterminism ==
    \A id \in AggIds :
        Len(getEvents(store, id)) > 0
        => \A t1, t2 \in Times :
              FieldValues(fromEvents(getEvents(store, id), t1).agg)
                 = FieldValues(fromEvents(getEvents(store, id), t2).agg)

\* C15: fromEvents on an empty event sequence fails with EmptyHistory and
\* the caller gets no aggregate.
C15_EmptyHistoryIsRejected ==
    [][(/\ last'.op = "fromEvents"
        /\ Len(getEvents(store, last'.aggregateId)) = 0)
       => (/\ last'.err = EmptyHistory
           /\ fromEvents(getEvents(store, last'.aggregateId), clock).agg = NoAgg
           /\ local' = local)]_vars

C15_Witness ==
    /\ last.op = "fromEvents"
    /\ last.err = EmptyHistory
    /\ Len(getEvents(store, last.aggregateId)) = 0

\* the step is a call of send by s
SendStep(s) ==
    /\ sends[s].pc \in {"idle", "settled"}
    /\ sends'[s].pc \in {"awaiting", "settled"}
    /\ sends'[s] # sends[s]

\* C16: send of a command whose kind has no handler bound fails with
\* NoHandlerRegistered; no handler is invoked, and the event store and the
\* read model stay as they were.
C16_NoHandlerIsRejected ==
    [][\A s \in Senders :
        (/\ SendStep(s)
         /\ handlers[commandType(sends'[s].command)] = NoHandler)
        => /\ sends'[s].pc = "settled"
           /\ sends'[s].err = NoHandlerRegistered
           /\ sends'[s].invoked = <<>>
           /\ \A t \in Senders \ {s} : sends'[t] = sends[t]
           /\ store' = store
           /\ data' = data
           /\ keys' = keys
           /\ heap' = heap]_vars

C16_Witness ==
    \E s \in Senders :
        /\ sends[s].pc = "settled"
        /\ sends[s].err = NoHandlerRegistered
        /\ sends[s].invoked = <<>>
        /\ \E k \in Kinds : handlers[k] # NoHandler

\* C17: send calls one handler, the one bound to the kind of the command at
\* the time of the call, once, and the call settles only when that handler
\* run is over.
C17_OneHandlerRunsToCompletion ==
    /\ [][\A s \in Senders :
            (/\ SendStep(s)
             /\ handlers[commandType(sends'[s].command)] # NoHandler)
            => /\ sends'[s].pc = "awaiting"
               /\ sends'[s].invoked = <<handlers[commandType(sends'[s].command)]>>]_vars
    /\ [](\A s \in Senders :
            sends[s].handler # NoHandler
            => /\ sends[s].invoked = <<sends[s].handler>>
               /\ sends[s].pc = "settled" => sends[s].hpc = "done")

C17_Witness ==
    \E s \in Senders :
        /\ sends[s].pc = "settled"
        /\ sends[s].handler \in UpdateHandlers
        /\ sends[s].err = NoError
        /\ heap[get(readModelStore, "produces",
                    sends[s].command.produceId)].quality
               = sends[s].command.newQuality

\* C18: when the handler called by send fails, send fails with the error of
\* the handler, as it is.
C18_HandlerFailurePropagates ==
    [][\A s \in Senders :
        (/\ sends[s].pc = "awaiting"
         /\ sends'[s].pc = "settled"
         /\ sends[s].herr # NoError)
        => sends'[s].err = sends[s].herr]_vars

C18_Witness ==
    \E s \in Senders :
        /\ sends[s].pc = "settled"
        /\ sends[s].handler \in UpdateHandlers
        /\ sends[s].herr = NotFound
        /\ sends[s].err = NotFound

\* C19: a kind has at most one handler, the one registered last, and send
\* calls that one and no handler registered before it.
C19_LastRegistrationWins ==
    [][/\ \A k \in Kinds : handlers'[k] = registered'[k].latest
       /\ \A s \in Senders :
            SendStep(s)
            => LET latest == registered[commandType(sends'[s].command)].latest
               IN  /\ sends'[s].handler = latest
                   /\ sends'[s].invoked = IF latest = NoHandler THEN <<>>
                                          ELSE <<latest>>]_vars

C19_Witness ==
    \E s \in Senders :
        LET r == registered[commandType(sends[s].command)]
        IN  /\ sends[s].pc \in {"awaiting", "settled"}
            /\ sends[s].handler # NoHandler
            /\ sends[s].invoked = <<r.latest>>
            /\ r.replaced \notin {NoHandler, r.latest}

\* the fields a read model entry shares with the aggregate
Shown(doc, a) ==
    /\ doc.id = a.id
    /\ doc.farmerId = a.farmerId
    /\ doc.origin = a.origin
    /\ doc.quality = a.quality
    /\ doc.currentPrice = a.currentPrice
    /\ doc.status = a.status

\* C20: every entry of the 'produces' read model shows the state some
\* non-empty prefix of the events persisted for its id leads to.
C20_ReadModelReflectsEvents ==
    \A id \in DocIds :
        data["produces"][id] # NoRef
        => \E n \in 1..Len(getEvents(store, id)) :
              Shown(heap[data["produces"][id]], Rebuilt(getEvents(store, id), n))

\* the type of the event the aggregate operation behind a command emits
EmittedType(command) ==
    IF commandType(command) = "RegisterProduceCommand" THEN "ProduceRegistered"
    ELSE "ProduceQualityUpdated"

\* C21: when a handler run has ended without error for aggregate id A, the
\* event of the aggregate operation is in the stream of A, at a position past
\* the version the aggregate had before the operation.
C21_HandlerAppendsEvents ==
    \A s \in Senders :
        (/\ sends[s].pc = "settled"
         /\ sends[s].handler # NoHandler
         /\ sends[s].err = NoError)
        => \E k \in 1..Len(getEvents(store, sends[s].command.produceId)) :
              LET event == getEvents(store, sends[s].command.produceId)[k]
              IN  /\ event.eventType = EmittedType(sends[s].command)
                  /\ event.aggregateId = sends[s].command.produceId

\* C23: after save(collection, id, doc), get(collection, id) answers a
\* document with the fields of doc and no other, except id, which is the key.
C23_SaveOverwritesInFull ==
    last.op = "save"
    => LET ref == get(readModelStore, last.collection, last.id)
       IN  /\ ref # NoRef
           /\ DOMAIN heap[ref] = (DOMAIN last.doc) \cup {"id"}
           /\ heap[ref].id = last.id
           /\ \A f \in (DOMAIN last.doc) \ {"id"} : heap[ref][f] = last.doc[f]

C23_Witness ==
    /\ last.op = "save"
    /\ last.before # NoDoc
    /\ "id" \in DOMAIN last.doc
    /\ last.doc.id # last.id
    /\ \E f \in DOMAIN last.before : f \notin DOMAIN last.doc
    /\ Stored(last.collection, last.id) = WithId(last.doc, last.id)

\* the objects a find call answered
Found == {last.results[i] : i \in 1..Len(last.results)}

\* C24: find(collection, query) answers the documents of the collection
\* whose fields named in query all have the queried value, each once: all
\* documents for an empty query, none for a collection never written.
C24_FindMatchesExactly ==
    last.op = "find"
    => /\ Found = {data[last.collection][id] : id \in
                     {k \in DocIds :
                        /\ data[last.collection][k] # NoRef
                        /\ \A f \in DOMAIN last.query :
                              /\ f \in DOMAIN Stored(last.collection, k)
                              /\ Stored(last.collection, k)[f] = last.query[f]}}
       /\ Len(last.results) = Cardinality(Found)
       /\ DOMAIN last.query = {}
          => Cardinality(Found)
                = Cardinality({k \in DocIds : data[last.collection][k] # NoRef})
       /\ keys[last.collection] = <<>> => last.results = <<>>

C24_Witness ==
    /\ last.op = "find"
    /\ DOMAIN last.query # {}
    /\ Len(last.results) = 1
    /\ Cardinality({k \in DocIds : data[last.collection][k] # NoRef}) = 2
    /\ \E other \in Collections : keys[other] = <<>>

UpdateSaveStep(s) ==
    /\ sends[s].handler \in UpdateHandlers
    /\ sends[s].hpc = "awaitGet"
    /\ sends'[s].hpc = "awaitSave"

\* C25: once the produce registered for farmer F has had its quality updated
\* to Q by F through the command bus, find('produces', {farmerId: F}) answers
\* one entry for that produce, and its quality is Q.
C25_UpdatedQualityIsFound ==
    [][\A s \in Senders :
        (/\ UpdateSaveStep(s)
         /\ heap[sends[s].produce].farmerId = sends[s].command.updaterId)
        => LET w == [data |-> data', keys |-> keys', heap |-> heap']
               results == find(w, "produces", [farmerId |-> sends[s].command.updaterId])
               ofProduce == {i \in 1..Len(results) :
                               heap'[results[i]].id = sends[s].command.produceId}
           IN  /\ Cardinality(ofProduce) = 1
               /\ \A i \in ofProduce :
                     heap'[results[i]].quality = sends[s].command.newQuality]_vars

C25_Witness ==
    \E s \in Senders :
        LET results == find(readModelStore, "produces",
                            [farmerId |-> sends[s].command.updaterId])
        IN  /\ sends[s].handler \in UpdateHandlers
            /\ sends[s].pc = "settled"
            /\ sends[s].err = NoError
            /\ Len(results) = 2
            /\ \E i, j \in 1..2 :
                  /\ heap[results[i]].id = sends[s].command.produceId
                  /\ heap[results[i]].quality = sends[s].command.newQuality
                  /\ heap[results[j]].quality # sends[s].command.newQuality

\* the step is the one an update handler run of s takes after its get
UpdateResumeStep(s) ==
    /\ sends[s].handler \in UpdateHandlers
    /\ sends[s].hpc = "awaitGet"
    /\ sends'[s] # sends[s]

\* C26: an update command whose updaterId is not the farmerId of the produce
\* is rejected with Unauthorized, and the read model and the event store stay
\* as they were.
C26_UnauthorizedUpdateIsRejected ==
    [][\A s \in Senders :
        (/\ UpdateResumeStep(s)
         /\ sends[s].produce # NoRef
         /\ heap[sends[s].produce].farmerId # sends[s].command.updaterId)
        => /\ sends'[s].herr = Unauthorized
           /\ data' = data
           /\ keys' = keys
           /\ heap' = heap
           /\ store' = store]_vars

\* C27: an update command for a produce id the read model does not hold fails
\* with NotFound; the handler is not called again, and the read model and the
\* event store stay as they were.
C27_MissingProduceIsNotFound ==
    [][\A s \in Senders :
        (/\ UpdateResumeStep(s)
         /\ sends[s].produce = NoRef)
        => /\ sends'[s].herr = NotFound
           /\ sends'[s].hpc = "done"
           /\ sends'[s].invoked = sends[s].invoked
           /\ data' = data
           /\ keys' = keys
           /\ heap' = heap
           /\ store' = store]_vars

C27_Witness ==
    \E s \in Senders :
        /\ sends[s].handler \in UpdateHandlers
        /\ sends[s].hpc = "done"
        /\ sends[s].herr = NotFound
        /\ sends[s].invoked = <<sends[s].handler>>
        /\ Stored("produces", sends[s].command.produceId) = NoDoc
        /\ keys["produces"] # <<>>

C30_OneEventPerOperation ==
    [][\A c \in Callers :
        (/\ last'.op \in {"updateQuality", "updatePrice", "deactivate"}
         /\ last'.caller = c)
        => LET before == getUncommittedEvents(local[c])
               after == getUncommittedEvents(local'[c])
           IN  IF last'.err = NoError
               THEN /\ Len(after) = Len(before) + 1
                    /\ SubSeq(after, 1, Len(before)) = before
                    /\ local'[c].version = local[c].version + 1
                    /\ after[Len(after)].version = local'[c].version
               ELSE /\ after = before
                    /\ local'[c].version = local[c].version]_vars

\* a path id that holds no digit at all
NonNumeric(id) == \A i \in 1..Len(id) : ~IsDigit(id[i])

\* a register body with a required field missing, or a price not above 0
BadRegisterBody(body, required) ==
    \/ \E field \in required : field \notin DOMAIN body
    \/ body.initialPrice <= 0

\* C29: a GET /api/produce/:id or GET /api/qr/:id request with a non-numeric
\* id, and a register request with a required field missing or a price not
\* above 0, is answered with 400 and no outside call is made for it.
C29_InvalidRequestsAreRejected ==
    /\ http.route \in {"GET /api/produce/:id", "GET /api/qr/:id"}
       => (NonNumeric(http.input) => http.status = 400 /\ http.effects = <<>>)
    /\ http.route = "POST /api/register-produce"
       => (BadRegisterBody(http.input, RouteFields)
              => http.status = 400 /\ http.effects = <<>>)
    /\ http.route = "CQRSController.registerProduce"
       => (BadRegisterBody(http.input, ControllerFields)
              => http.status = 400 /\ http.effects = <<>>)

\* C31: the ProducePriceUpdated event a successful updatePrice emits carries
\* as oldPrice the currentPrice the aggregate had before the call, as newPrice
\* the argument, and the updaterId given.
C31_PriceEventCarriesOldPrice ==
    [][\A c \in Callers :
        (/\ last'.op = "updatePrice"
         /\ last'.caller = c
         /\ last'.err = NoError)
        => LET emitted == getUncommittedEvents(local'[c])
               event == emitted[Len(emitted)]
           IN  /\ event.eventType = "ProducePriceUpdated"
               /\ event.eventData.oldPrice = local[c].currentPrice
               /\ event.eventData.newPrice = last'.newPrice
               /\ event.eventData.updaterId \in Farmers]_vars

\* C32: in a rebuild every event after the first changes the field of its
\* type and no other: ProduceQualityUpdated quality, ProducePriceUpdated
\* currentPrice, ProduceDeactivated status; version and updatedAt become the
\* version and timestamp of the event, and id, farmerId, origin, initialPrice
\* (and createdAt) stay.
C32_ReplayChangesOnlyItsFields ==
    \A id \in AggIds :
        \A n \in 1..(Len(getEvents(store, id)) - 1) :
            LET event == getEvents(store, id)[n + 1]
                a == Rebuilt(getEvents(store, id), n)
                b == Rebuilt(getEvents(store, id), n + 1)
                type == event.eventType
            IN  /\ b.id = a.id /\ b.farmerId = a.farmerId /\ b.origin = a.origin
                /\ b.initialPrice = a.initialPrice /\ b.createdAt = a.createdAt
                /\ b.events = a.events
                /\ b.version = event.version
                /\ b.updatedAt = event.timestamp
                /\ b.quality = IF type = "ProduceQualityUpdated"
                               THEN event.eventData.newQuality ELSE a.quality
                /\ b.currentPrice = IF type = "ProducePriceUpdated"
                                    THEN event.eventData.newPrice ELSE a.currentPrice
                /\ b.status = IF type = "ProduceDeactivated"
                              THEN "INACTIVE" ELSE a.status

C32_Witness ==
    \E id \in AggIds :
        LET events == getEvents(store, id)
        IN  /\ Len(events) = 3
            /\ events[2].eventType = "ProducePriceUpdated"
            /\ events[3].eventType = "ProduceQualityUpdated"
            /\ Rebuilt(events, 3).currentPrice # Rebuilt(events, 3).initialPrice
            /\ Rebuilt(events, 3).quality # Rebuilt(events, 2).quality

\* the event is of a type applyEvent has a case for, or the registration
IsKnownType(event) ==
    event.eventType \in {"ProduceRegistered", "ProduceQualityUpdated",
                         "ProducePriceUpdated", "ProduceDeactivated"}

\* C33: a rebuild from a history that holds events of unknown type yields the
\* quality, currentPrice and status that the history without those events
\* yields, and its version is the version of the last event of the history.
C33_UnknownEventsAreSkipped ==
    \A id \in AggIds :
        LET events == getEvents(store, id)
            known == SelectSeq(events, IsKnownType)
        IN  (\E k \in 1..Len(events) : ~IsKnownType(events[k]))
            => LET a == fromEvents(events, clock).agg
                   b == fromEvents(known, clock).agg
               IN  /\ a.quality = b.quality
                   /\ a.currentPrice = b.currentPrice
                   /\ a.status = b.status
                   /\ a.id = b.id /\ a.farmerId = b.farmerId
                   /\ a.version = events[Len(events)].version

C33_Witness ==
    \E id \in AggIds :
        LET events == getEvents(store, id)
        IN  /\ Len(events) = 3
            /\ ~IsKnownType(events[2])
            /\ events[3].eventType = "ProduceDeactivated"
            /\ last.op = "fromEvents"
            /\ last.aggregateId = id
            /\ local[FirstCaller].status = "INACTIVE"
            /\ local[FirstCaller].version = events[3].version

\* C34: the stream stored for an aggregate id before a step is a prefix of
\* the stream stored for it after the step: persisted events are not changed,
\* removed or moved, and getEvents reads them in the order they were saved.
C34_LogIsAppendOnly ==
    [][\A id \in AggIds :
        LET before == getEvents(store, id)
            after == getEvents(store', id)
        IN  /\ Len(before) <= Len(after)
            /\ \A k \in 1..Len(before) : after[k] = before[k]
            /\ (last'.op = "saveEvents" /\ last'.aggregateId = id)
               => SubSeq(after, Len(before) + 1, Len(after))
                     = getUncommittedEvents(local[last'.caller])]_vars

C34_Witness ==
    /\ last.op = "saveEvents"
    /\ last.count >= 1
    /\ last.expectedVersion >= 1
    /\ Len(getEvents(store, last.aggregateId)) = last.expectedVersion + last.count
    /\ getEvents(store, last.aggregateId)[1].eventType = "ProduceRegistered"

\* the document the 'produces' collection holds for id after the step
StoredAfter(id) ==
    IF data'["produces"][id] = NoRef THEN NoDoc ELSE heap'[data'["produces"][id]]

\* the step is one of the send call of s or of the handler run it started
Acting(s) ==
    [sends'[s] EXCEPT !.produce = NoRef] # [sends[s] EXCEPT !.produce = NoRef]

\* C35: a step of the handling of a command for one aggregate id leaves the
\* read model entry and the event stream of every other id as they were, so
\* commands for different ids come out the same in every interleaving.
C35_OtherIdsAreUntouched ==
    [][\A s \in Senders :
        (Acting(s) /\ sends'[s].command # NoCommand)
        => \A id \in DocIds \ {sends'[s].command.produceId} :
              /\ StoredAfter(id) = Stored("produces", id)
              /\ getEvents(store', id) = getEvents(store, id)]_vars

C35_Witness ==
    \E s, t \in Senders :
        /\ sends[s].hpc = "awaitSave"
        /\ sends[t].hpc = "awaitSave"
        /\ sends[s].handler \in UpdateHandlers
        /\ sends[s].command.produceId # sends[t].command.produceId
        /\ Stored("produces", sends[s].command.produceId).quality
              = sends[s].command.newQuality
        /\ Stored("produces", sends[t].command.produceId) # NoDoc

\* C36: two handler runs hold the object both read under the same key, the run
\* of s has saved its change and the run of t goes on after its get. Then t is
\* rejected with ConcurrencyConflict, or the change of s is still in the
\* document stored once t has saved: never do both succeed with the effect of
\* one gone.
C36_NoSilentOverwrite ==
    [][\A s \in Senders : \A t \in Senders \ {s} :
        (/\ sends[s].hpc = "awaitSave"
         /\ sends[t].hpc = "awaitGet"
         /\ sends[t].produce # NoRef
         /\ sends[s].produce = sends[t].produce
         /\ Acting(t))
        => \/ sends'[t].herr = ConcurrencyConflict
           \/ StoredAfter(sends[t].command.produceId).quality
                  = sends[s].command.newQuality]_vars

\* C37: an aggregate made by register whose events are all still in its buffer
\* and the aggregate fromEvents rebuilds from those events agree on id,
\* farmerId, origin, quality, initialPrice, currentPrice, status and version.
C37_LiveAndReplayedAgree ==
    \A c \in Callers :
        (local[c] # NoAgg /\ committed[c] = 0)
        => LET live == local[c]
               replayed == fromEvents(getUncommittedEvents(live), clock)
           IN  /\ replayed.err = NoError
               /\ \A f \in {"id", "farmerId", "origin", "quality", "initialPrice",
                            "currentPrice", "status", "version"} :
                      replayed.agg[f] = live[f]

\* the fields of an aggregate other than its buffer of uncommitted events
DomainFields ==
    {"id", "farmerId", "origin", "quality", "initialPrice", "currentPrice",
     "status", "createdAt", "updatedAt", "version"}

\* C38: getUncommittedEvents answers the events emitted since the aggregate
\* was made or last marked as committed, in the order they were emitted:
\* register leaves its one event, a successful operation appends its one new
\* event at the end, a failed one leaves the buffer alone, fromEvents leaves
\* the buffer empty whatever history it replays, and markEventsAsCommitted
\* empties the buffer and changes neither version nor any domain field.
C38_BufferHoldsWhatWasEmitted ==
    [][\A c \in Callers :
        LET before == IF local[c] = NoAgg THEN <<>> ELSE getUncommittedEvents(local[c])
            after == getUncommittedEvents(local'[c])
        IN  /\ (last'.op = "register" /\ last'.caller = c)
               => /\ Len(after) = 1
                  /\ after[1].eventId = nextEventId
                  /\ after[1].eventType = "ProduceRegistered"
            /\ (last'.op \in {"updateQuality", "updatePrice", "deactivate"}
                    /\ last'.caller = c /\ last'.err = NoError)
               => /\ Len(after) = Len(before) + 1
                  /\ SubSeq(after, 1, Len(before)) = before
                  /\ after[Len(after)].eventId = nextEventId
            /\ (last'.op \in {"updateQuality", "updatePrice", "deactivate"}
                    /\ last'.caller = c /\ last'.err # NoError)
               => after = before
            /\ (last'.op = "fromEvents" /\ last'.caller = c /\ last'.err = NoError)
               => /\ after = <<>>
                  /\ getEvents(store, last'.aggregateId) # <<>>
            /\ (last'.op = "saveEvents" /\ last'.caller = c)
               => /\ after = <<>>
                  /\ \A f \in DomainFields : local'[c][f] = local[c][f]]_vars

\* an operation has emitted one event on an aggregate whose two earlier events
\* were marked as committed or replayed: the buffer holds that one event
C38_Witness ==
    /\ last.op \in {"updateQuality", "updatePrice", "deactivate"}
    /\ last.err = NoError
    /\ committed[last.caller] = 2
    /\ Len(getUncommittedEvents(local[last.caller])) = 1

\* the document stored under a key once the step is done
StoredThen(collection, id) ==
    IF data'[collection][id] = NoRef THEN NoDoc ELSE heap'[data'[collection][id]]

\* C39: a step that is not a save call leaves every stored document as it
\* was: what a client does with a document get or find answered, or with the
\* object it passed to save, does not change what get and find answer later.
C39_OnlySaveChangesTheReadModel ==
    [][last'.op # "save"
        => \A collection \in Collections, id \in DocIds :
              StoredThen(collection, id) = Stored(collection, id)]_vars

\* the transfers logged for a produce, and the recipient of the latest of them
TransfersOf(produceId) ==
    {k \in 1..transferCount : transfers[k].produceId = produceId}

LatestRecipient(produceId) ==
    IF TransfersOf(produceId) = {} THEN ZeroAddress
    ELSE transfers[CHOOSE k \in TransfersOf(produceId) :
                      \A j \in TransfersOf(produceId) : j <= k].to

\* C40: a logTransfer call for a produce that is not active, or whose sender
\* is neither the farmer who registered the produce nor the recipient of the
\* latest transfer logged for that produce, reverts and leaves transferCount
\* and transfers as they were.
C40_OnlyHolderLogsTransfer ==
    [][(/\ last'.op = "logTransfer"
        /\ ~(/\ produces[last'.produceId].isActive
             /\ last'.sender \in {produces[last'.produceId].farmer,
                                  LatestRecipient(last'.produceId)}))
       => /\ last'.reverted
          /\ transferCount' = transferCount
          /\ transfers' = transfers]_vars

====
